---- MODULE Spec2Model ----
(***************************************************************************)
(* Import linking of the WasmEdge executor:                                *)
(*   lib/executor/instantiate/import.cpp                                   *)
(* Executor::instantiate(StoreMgr, ModInst, ImportSec) walks the import    *)
(* section of a module, finds the exporting module in the store, finds the *)
(* export address, matches the type of the exported entity against the     *)
(* declared type, and appends the address to the module instance.          *)
(***************************************************************************)
EXTENDS Integers, Sequences, FiniteSets, TLC

(***************************************************************************)
(* Bounds.                                                                 *)
(***************************************************************************)
\* Longest import section that is instantiated.
MaxImports == 2
\* Largest minimum / maximum of a limit handed to isLimitMatched on its own.
MaxLimit == 10

(***************************************************************************)
(* Types of the AST and of the runtime.                                    *)
(***************************************************************************)
\* enum class ExternalType: the four external kinds, in enum order.
ExternalTypes == {"Function", "Table", "Memory", "Global"}

\* AST::Limit: getMin(), hasMax(), getMax().
Lim(hasMax, min, max) == [hasMax |-> hasMax, min |-> min, max |-> max]
NoMax(min) == Lim(FALSE, min, min)
WithMax(min, max) == Lim(TRUE, min, max)

\* Every limit over 0..MaxLimit, the unread maximum of a limit without
\* maximum included.
Limits == [hasMax : BOOLEAN, min : 0..MaxLimit, max : 0..MaxLimit]

\* AST::FunctionType: ordered parameter types and ordered return types.
FuncType(params, returns) == [ParamTypes |-> params, ReturnTypes |-> returns]

\* AST::TableType, AST::MemoryType, AST::GlobalType.
TableType(ref, lim) == [RefType |-> ref, Limit |-> lim]
MemoryType(lim) == [Limit |-> lim]
GlobalType(vt, mut) == [ValType |-> vt, ValMut |-> mut]

(***************************************************************************)
(* Error reporting (anonymous namespace of import.cpp).                    *)
(* An Expect<T> is [ok |-> TRUE, val |-> v] or                             *)
(* [ok |-> FALSE, err |-> code, log |-> the lines written to spdlog].      *)
(***************************************************************************)
Expected(v) == [ok |-> TRUE, val |-> v]

\* Variant of logMatchError: the lines of a mismatch are logged but the code
\* returned is the one of logUnknownError.
logMatchErrorUnknownCode(ModName, ExtName, ExtType, Node, Values) ==
  [ok  |-> FALSE,
   err |-> "UnknownImport",
   log |-> << [info |-> "ErrCode", code |-> "IncompatibleImportType"],
              [info |-> "InfoMismatch", values |-> Values],
              [info |-> "InfoLinking", ModName |-> ModName,
               ExtName |-> ExtName, ExtType |-> ExtType],
              [info |-> "InfoAST", node |-> Node] >>]

\* logMatchError: four lines, then Unexpect(IncompatibleImportType).
\* Values are the arguments forwarded to ErrInfo::InfoMismatch, in order.
logMatchError(ModName, ExtName, ExtType, Node, Values) ==
  [ok  |-> FALSE,
   err |-> "IncompatibleImportType",
   log |-> << [info |-> "ErrCode", code |-> "IncompatibleImportType"],
              [info |-> "InfoMismatch", values |-> Values],
              [info |-> "InfoLinking", ModName |-> ModName,
               ExtName |-> ExtName, ExtType |-> ExtType],
              [info |-> "InfoAST", node |-> Node] >>]

\* Variant of logUnknownError: the lines of an unknown import are logged but
\* the code returned is the one of logMatchError.
logUnknownErrorMatchCode(ModName, ExtName, ExtType, Node) ==
  [ok  |-> FALSE,
   err |-> "IncompatibleImportType",
   log |-> << [info |-> "ErrCode", code |-> "UnknownImport"],
              [info |-> "InfoLinking", ModName |-> ModName,
               ExtName |-> ExtName, ExtType |-> ExtType],
              [info |-> "InfoAST", node |-> Node] >>]

\* logUnknownError: three lines, then Unexpect(UnknownImport).
logUnknownError(ModName, ExtName, ExtType, Node) ==
  [ok  |-> FALSE,
   err |-> "UnknownImport",
   log |-> << [info |-> "ErrCode", code |-> "UnknownImport"],
              [info |-> "InfoLinking", ModName |-> ModName,
               ExtName |-> ExtName, ExtType |-> ExtType],
              [info |-> "InfoAST", node |-> Node] >>]

\* Variant of isLimitMatched: an exported limit without a maximum is not
\* rejected when the import declares one.
isLimitMatchedIgnoreNoMax(Lim1, Lim2) ==
  IF Lim1.min < Lim2.min
  THEN FALSE
  ELSE IF Lim1.hasMax /\ Lim2.hasMax /\ Lim1.max > Lim2.max
       THEN FALSE
       ELSE TRUE

\* Variant of isLimitMatched: the minimum is compared with <= instead of <.
isLimitMatchedStrictMin(Lim1, Lim2) ==
  IF (Lim1.min <= Lim2.min) \/ (~Lim1.hasMax /\ Lim2.hasMax)
  THEN FALSE
  ELSE IF Lim1.hasMax /\ Lim2.hasMax /\ Lim1.max > Lim2.max
       THEN FALSE
       ELSE TRUE

(***************************************************************************)
(* isLimitMatched(Lim1, Lim2): Lim1 is the limit of the exported entity,   *)
(* Lim2 the limit the import declares.                                     *)
(***************************************************************************)
isLimitMatched(Lim1, Lim2) ==
  IF (Lim1.min < Lim2.min) \/ (~Lim1.hasMax /\ Lim2.hasMax)
  THEN FALSE
  ELSE IF Lim1.hasMax /\ Lim2.hasMax /\ Lim1.max > Lim2.max
       THEN FALSE
       ELSE TRUE

\* Variant of getImportAddr: the four export maps are scanned in the order
\* Function, Table, Memory, Global before the requested kind is looked at,
\* and the first map holding the name decides.
getImportAddrScanFirst(ModName, ExtName, ExtType, Node, TargetInst) ==
  LET FuncList == TargetInst.FuncExports
      TabList  == TargetInst.TableExports
      MemList  == TargetInst.MemExports
      GlobList == TargetInst.GlobalExports
  IN
  IF ExtName \in DOMAIN FuncList
    THEN IF ExtType = "Function" THEN Expected(FuncList[ExtName])
         ELSE logMatchError(ModName, ExtName, ExtType, Node,
                            <<ExtType, "Function">>)
  ELSE IF ExtName \in DOMAIN TabList
    THEN IF ExtType = "Table" THEN Expected(TabList[ExtName])
         ELSE logMatchError(ModName, ExtName, ExtType, Node,
                            <<ExtType, "Table">>)
  ELSE IF ExtName \in DOMAIN MemList
    THEN IF ExtType = "Memory" THEN Expected(MemList[ExtName])
         ELSE logMatchError(ModName, ExtName, ExtType, Node,
                            <<ExtType, "Memory">>)
  ELSE IF ExtName \in DOMAIN GlobList
    THEN IF ExtType = "Global" THEN Expected(GlobList[ExtName])
         ELSE logMatchError(ModName, ExtName, ExtType, Node,
                            <<ExtType, "Global">>)
  ELSE logUnknownError(ModName, ExtName, ExtType, Node)

\* Variant of getImportAddr: on a kind mismatch the kind found is passed to
\* logMatchError before the kind requested.
getImportAddrFoundFirst(ModName, ExtName, ExtType, Node, TargetInst) ==
  LET FuncList == TargetInst.FuncExports
      TabList  == TargetInst.TableExports
      MemList  == TargetInst.MemExports
      GlobList == TargetInst.GlobalExports
  IN
  IF ExtType = "Function" /\ ExtName \in DOMAIN FuncList
    THEN Expected(FuncList[ExtName])
  ELSE IF ExtType = "Table" /\ ExtName \in DOMAIN TabList
    THEN Expected(TabList[ExtName])
  ELSE IF ExtType = "Memory" /\ ExtName \in DOMAIN MemList
    THEN Expected(MemList[ExtName])
  ELSE IF ExtType = "Global" /\ ExtName \in DOMAIN GlobList
    THEN Expected(GlobList[ExtName])
  ELSE IF ExtType \notin ExternalTypes
    THEN logUnknownError(ModName, ExtName, ExtType, Node)
  ELSE IF ExtName \in DOMAIN FuncList
    THEN logMatchError(ModName, ExtName, ExtType, Node, <<"Function", ExtType>>)
  ELSE IF ExtName \in DOMAIN TabList
    THEN logMatchError(ModName, ExtName, ExtType, Node, <<"Table", ExtType>>)
  ELSE IF ExtName \in DOMAIN MemList
    THEN logMatchError(ModName, ExtName, ExtType, Node, <<"Memory", ExtType>>)
  ELSE IF ExtName \in DOMAIN GlobList
    THEN logMatchError(ModName, ExtName, ExtType, Node, <<"Global", ExtType>>)
  ELSE logUnknownError(ModName, ExtName, ExtType, Node)

\* Variant of getImportAddr: only the export map of the requested kind is
\* searched, a miss is an unknown import.
getImportAddrRequestedOnly(ModName, ExtName, ExtType, Node, TargetInst) ==
  LET List == CASE ExtType = "Function" -> TargetInst.FuncExports
                [] ExtType = "Table"    -> TargetInst.TableExports
                [] ExtType = "Memory"   -> TargetInst.MemExports
                [] ExtType = "Global"   -> TargetInst.GlobalExports
  IN IF ExtName \in DOMAIN List
     THEN Expected(List[ExtName])
     ELSE logUnknownError(ModName, ExtName, ExtType, Node)

(***************************************************************************)
(* getImportAddr: the export map of the requested kind first, then the     *)
(* four maps in the order Function, Table, Memory, Global to tell a wrong  *)
(* kind from an unknown name.                                              *)
(***************************************************************************)
getImportAddr(ModName, ExtName, ExtType, Node, TargetInst) ==
  LET FuncList == TargetInst.FuncExports
      TabList  == TargetInst.TableExports
      MemList  == TargetInst.MemExports
      GlobList == TargetInst.GlobalExports
  IN
  IF ExtType = "Function" /\ ExtName \in DOMAIN FuncList
    THEN Expected(FuncList[ExtName])
  ELSE IF ExtType = "Table" /\ ExtName \in DOMAIN TabList
    THEN Expected(TabList[ExtName])
  ELSE IF ExtType = "Memory" /\ ExtName \in DOMAIN MemList
    THEN Expected(MemList[ExtName])
  ELSE IF ExtType = "Global" /\ ExtName \in DOMAIN GlobList
    THEN Expected(GlobList[ExtName])
  ELSE IF ExtType \notin ExternalTypes
    THEN logUnknownError(ModName, ExtName, ExtType, Node)
  ELSE IF ExtName \in DOMAIN FuncList
    THEN logMatchError(ModName, ExtName, ExtType, Node, <<ExtType, "Function">>)
  ELSE IF ExtName \in DOMAIN TabList
    THEN logMatchError(ModName, ExtName, ExtType, Node, <<ExtType, "Table">>)
  ELSE IF ExtName \in DOMAIN MemList
    THEN logMatchError(ModName, ExtName, ExtType, Node, <<ExtType, "Memory">>)
  ELSE IF ExtName \in DOMAIN GlobList
    THEN logMatchError(ModName, ExtName, ExtType, Node, <<ExtType, "Global">>)
  ELSE logUnknownError(ModName, ExtName, ExtType, Node)

(***************************************************************************)
(* Collaborators of import.cpp: the store, the module instance and the     *)
(* comparison operators of the AST types (include/runtime, include/ast).   *)
(***************************************************************************)
\* StoreManager::findModule: the registered module instance of that name,
\* held by reference (its name in the registry), or nothing.
findModule(StoreMgr, ModName) ==
  IF ModName \in DOMAIN StoreMgr.Modules
  THEN Expected(ModName)
  ELSE [ok |-> FALSE]

\* StoreManager::getFunction / getTable / getMemory / getGlobal.
getFunction(StoreMgr, Addr) == StoreMgr.Funcs[Addr]
getTable(StoreMgr, Addr) == StoreMgr.Tabs[Addr]
getMemory(StoreMgr, Addr) == StoreMgr.Mems[Addr]
getGlobal(StoreMgr, Addr) == StoreMgr.Globs[Addr]

\* ModuleInstance::getFuncType: the type at an index of the type section.
getFuncType(Inst, TypeIdx) == Inst.FuncTypes[TypeIdx]

\* ModuleInstance::importFunction / importTable / importMemory /
\* importGlobal: the address goes to the end of the kind's address list.
importFunction(Inst, Addr) == [Inst EXCEPT !.FuncAddrs = Append(@, Addr)]
importTable(Inst, Addr) == [Inst EXCEPT !.TableAddrs = Append(@, Addr)]
importMemory(Inst, Addr) == [Inst EXCEPT !.MemAddrs = Append(@, Addr)]
importGlobal(Inst, Addr) == [Inst EXCEPT !.GlobalAddrs = Append(@, Addr)]

\* operator!= of AST::FunctionType: parameter lists or return lists differ.
FuncTypeNe(LHS, RHS) ==
  ~(/\ Len(LHS.ParamTypes) = Len(RHS.ParamTypes)
    /\ \A k \in 1..Len(LHS.ParamTypes) : LHS.ParamTypes[k] = RHS.ParamTypes[k]
    /\ Len(LHS.ReturnTypes) = Len(RHS.ReturnTypes)
    /\ \A k \in 1..Len(LHS.ReturnTypes) :
         LHS.ReturnTypes[k] = RHS.ReturnTypes[k])

\* operator!= of AST::GlobalType: value type or mutability differ.
GlobalTypeNe(LHS, RHS) ==
  ~(LHS.ValType = RHS.ValType /\ LHS.ValMut = RHS.ValMut)

(***************************************************************************)
(* The store the imports are linked against.  "env" is registered, "sys"   *)
(* is not.  Every address an export map holds is the address of a live     *)
(* entity of that kind.  "nil" is exported under no kind.                  *)
(***************************************************************************)
ModNames == {"env", "sys"}
ExtNames == {"add", "tab", "mem", "glob", "nil"}

EnvInst ==
  [FuncExports   |-> ("add" :> 0),
   TableExports  |-> ("tab" :> 0 @@ "add" :> 1),
   MemExports    |-> ("mem" :> 0 @@ "tab" :> 1),
   GlobalExports |-> ("glob" :> 0 @@ "mem" :> 1)]

TheStore ==
  [Modules |-> ("env" :> EnvInst),
   Funcs |-> (0 :> FuncType(<<"i32", "i32">>, <<"i32">>) @@
              1 :> FuncType(<<"i32", "i32">>, <<"i64">>)),
   Tabs  |-> (0 :> TableType("FuncRef", WithMax(1, 2)) @@
              1 :> TableType("ExternRef", NoMax(2))),
   Mems  |-> (0 :> MemoryType(WithMax(1, 2)) @@
              1 :> MemoryType(WithMax(2, 3))),
   Globs |-> (0 :> GlobalType("i32", "Const") @@
              1 :> GlobalType("i32", "Var"))]

\* The type section of the module being instantiated.
TypeSection ==
  (0 :> FuncType(<<"i32", "i32">>, <<"i32">>) @@
   1 :> FuncType(<<"i32", "i32">>, <<"i64">>) @@
   2 :> FuncType(<<"i32">>, <<"i32">>))

\* ModuleInstance after its types are instantiated: no address yet.
NewModInst ==
  [FuncTypes |-> TypeSection,
   FuncAddrs |-> <<>>, TableAddrs |-> <<>>,
   MemAddrs |-> <<>>, GlobalAddrs |-> <<>>]

(***************************************************************************)
(* Import descriptions (AST::ImportDesc).  A description carries the       *)
(* fields of every kind; those of the other kinds keep their defaults.     *)
(***************************************************************************)
DeclLimits == {NoMax(0), WithMax(1, 4), WithMax(2, 2)}
RefTypes == {"FuncRef", "ExternRef"}
ValTypes == {"i32", "i64"}
ValMuts == {"Const", "Var"}

DefaultTableType == TableType("FuncRef", NoMax(0))
DefaultMemoryType == MemoryType(NoMax(0))
DefaultGlobalType == GlobalType("i32", "Const")

ImportDesc(mod, ext, kind, idx, tab, mem, glob) ==
  [ModName |-> mod, ExtName |-> ext, ExtType |-> kind,
   TypeIdx |-> idx, TabType |-> tab, MemType |-> mem, GlobType |-> glob]

DescsOf(m, n) ==
  {ImportDesc(m, n, "Function", t, DefaultTableType, DefaultMemoryType,
              DefaultGlobalType) : t \in DOMAIN TypeSection}
  \cup
  {ImportDesc(m, n, "Table", 0, TableType(r, l), DefaultMemoryType,
              DefaultGlobalType) : r \in RefTypes, l \in DeclLimits}
  \cup
  {ImportDesc(m, n, "Memory", 0, DefaultTableType, MemoryType(l),
              DefaultGlobalType) : l \in DeclLimits}
  \cup
  {ImportDesc(m, n, "Global", 0, DefaultTableType, DefaultMemoryType,
              GlobalType(v, u)) : v \in ValTypes, u \in ValMuts}

\* Imports from "env": every name, kind and declared type.  Imports from
\* "sys": every kind, a name "env" exports and one it does not, the
\* declared types left at their defaults.
ImportDescs ==
  UNION {DescsOf("env", n) : n \in ExtNames}
  \cup
  {d \in UNION {DescsOf("sys", n) : n \in {"add", "nil"}} :
     /\ d.TypeIdx = 0
     /\ d.TabType = DefaultTableType
     /\ d.MemType = DefaultMemoryType
     /\ d.GlobType = DefaultGlobalType}

\* Import sections of at most MaxImports descriptions.
ImportSections == UNION { [1..n -> ImportDescs] : n \in 0..MaxImports }

(***************************************************************************)
(* State.                                                                  *)
(***************************************************************************)
VARIABLES
  store,          \* Runtime::StoreManager
  ImportSec,      \* per call: the AST::ImportSection argument
  ModInst,        \* per call: the module instance being instantiated
  pc,             \* per call: "find", "getaddr", "match" or "done"
  it,             \* per call: position of the range-for over getContent()
  TargetModInst,  \* per call: local of the loop body
  TargetAddr,     \* per call: local of the loop body, <<>> until assigned
  result,         \* per call: "running", "ok" or the returned ErrCode
  log,            \* the lines written to spdlog::error
  calls,          \* per call: the collaborator calls made, as <<op, import>>
  Cand, Decl,     \* arguments of a direct call of isLimitMatched
  matched         \* its return value as <<b>>, <<>> before the call

vars == <<store, ImportSec, ModInst, pc, it, TargetModInst, TargetAddr,
          result, log, calls, Cand, Decl, matched>>

limVars == <<Cand, Decl, matched>>

Uninit == "uninit"
Node == "Desc_Import"

\* The calls of instantiate that are in flight or have returned.
Calls == DOMAIN pc

\* The description the loop body works on (line 106).
\* Variant: the range-for walks the section from its end.
ImpDescOfReversed(c) == ImportSec[c][Len(ImportSec[c]) + 1 - it[c]]
ImpDescOf(c) == ImportSec[c][it[c]]

\* One call of Executor::instantiate on a fresh module instance.
InitCalls(secs) ==
  /\ store = TheStore
  /\ ImportSec = secs
  /\ ModInst = [c \in DOMAIN secs |-> NewModInst]
  /\ pc = [c \in DOMAIN secs |-> "find"]
  /\ it = [c \in DOMAIN secs |-> 1]
  /\ TargetModInst = [c \in DOMAIN secs |-> Uninit]
  /\ TargetAddr = [c \in DOMAIN secs |-> <<>>]
  /\ result = [c \in DOMAIN secs |-> "running"]
  /\ log = <<>>
  /\ calls = [c \in DOMAIN secs |-> <<>>]

Init ==
  /\ \E sec \in ImportSections : InitCalls(<<sec>>)
  /\ Cand = NoMax(0) /\ Decl = NoMax(0) /\ matched = <<>>

\* Variant of ReturnError: the error is logged but not returned, the loop
\* goes on with the next description.
ReturnErrorContinue(c, Res) ==
  /\ log' = log \o Res.log
  /\ it' = [it EXCEPT ![c] = @ + 1]
  /\ pc' = [pc EXCEPT ![c] = "find"]
  /\ TargetModInst' = [TargetModInst EXCEPT ![c] = Uninit]
  /\ TargetAddr' = [TargetAddr EXCEPT ![c] = <<>>]
  /\ UNCHANGED <<result, ModInst>>

\* `return logMatchError(...)`, `return logUnknownError(...)`,
\* Variant of ReturnError: the error code is kept in a place all running
\* calls share, so every call returns it.
ReturnErrorShared(c, Res) ==
  /\ result' = [k \in DOMAIN result |-> Res.err]
  /\ log' = log \o Res.log
  /\ pc' = [k \in DOMAIN pc |-> "done"]
  /\ UNCHANGED <<ModInst, it, TargetModInst, TargetAddr>>

\* `return Unexpect(Res)`: the lines are logged, the code is returned, the
\* module instance stays as it is.
ReturnError(c, Res) ==
  /\ result' = [result EXCEPT ![c] = Res.err]
  /\ log' = log \o Res.log
  /\ pc' = [pc EXCEPT ![c] = "done"]
  /\ UNCHANGED <<ModInst, it, TargetModInst, TargetAddr>>

\* Variant of NextImport: the range-for does not advance and the same
\* import description is resolved again.
NextImportNoAdvance(c) ==
  /\ it' = it
  /\ pc' = [pc EXCEPT ![c] = "find"]
  /\ TargetModInst' = [TargetModInst EXCEPT ![c] = Uninit]
  /\ TargetAddr' = [TargetAddr EXCEPT ![c] = <<>>]
  /\ UNCHANGED <<result, log>>

\* Variant of NextImport: the `break` leaves the range-for, not the switch,
\* and instantiate returns success after the first import.
NextImportLeavesLoop(c) ==
  /\ it' = [it EXCEPT ![c] = @ + 1]
  /\ pc' = [pc EXCEPT ![c] = "done"]
  /\ result' = [result EXCEPT ![c] = "ok"]
  /\ TargetModInst' = [TargetModInst EXCEPT ![c] = Uninit]
  /\ TargetAddr' = [TargetAddr EXCEPT ![c] = <<>>]
  /\ UNCHANGED log

\* `break` of the switch: the locals die, the range-for advances.
NextImport(c) ==
  /\ it' = [it EXCEPT ![c] = @ + 1]
  /\ pc' = [pc EXCEPT ![c] = "find"]
  /\ TargetModInst' = [TargetModInst EXCEPT ![c] = Uninit]
  /\ TargetAddr' = [TargetAddr EXCEPT ![c] = <<>>]
  /\ UNCHANGED <<result, log>>

Called(c, op) == calls' = [calls EXCEPT ![c] = Append(@, <<op, it[c]>>)]

\* Variant of FuncMismatch: the type index of the import is ignored and the
\* first type of the type section is compared.
FuncMismatchFirstType(StoreMgr, Inst, ImpDesc, Addr) ==
  FuncTypeNe(getFunction(StoreMgr, Addr), getFuncType(Inst, 0))

\* Line 135: the function at Addr against the type at the import's index.
FuncMismatch(StoreMgr, Inst, ImpDesc, Addr) ==
  FuncTypeNe(getFunction(StoreMgr, Addr), getFuncType(Inst, ImpDesc.TypeIdx))

\* Variant of TableMismatch: `&&` in place of `||`.
TableMismatchBoth(StoreMgr, ImpDesc, Addr) ==
  /\ getTable(StoreMgr, Addr).RefType # ImpDesc.TabType.RefType
  /\ ~isLimitMatched(getTable(StoreMgr, Addr).Limit, ImpDesc.TabType.Limit)

\* Lines 153-154: the table at Addr against the declared table type.
TableMismatch(StoreMgr, ImpDesc, Addr) ==
  \/ getTable(StoreMgr, Addr).RefType # ImpDesc.TabType.RefType
  \/ ~isLimitMatched(getTable(StoreMgr, Addr).Limit, ImpDesc.TabType.Limit)

\* Variant of MemoryMismatch: the arguments of isLimitMatched are swapped.
MemoryMismatchSwapped(StoreMgr, ImpDesc, Addr) ==
  ~isLimitMatched(ImpDesc.MemType.Limit, getMemory(StoreMgr, Addr).Limit)

\* Line 172: the memory at Addr against the declared memory type.
MemoryMismatch(StoreMgr, ImpDesc, Addr) ==
  ~isLimitMatched(getMemory(StoreMgr, Addr).Limit, ImpDesc.MemType.Limit)

\* Variant of GlobalMismatch: only the value types are compared.
GlobalMismatchValType(StoreMgr, ImpDesc, Addr) ==
  getGlobal(StoreMgr, Addr).ValType # ImpDesc.GlobType.ValType

\* Line 188: the global at Addr against the declared global type.
GlobalMismatch(StoreMgr, ImpDesc, Addr) ==
  GlobalTypeNe(getGlobal(StoreMgr, Addr), ImpDesc.GlobType)

\* Lines 106-118: the next description, StoreMgr.findModule(ModName).
FindModule(c) ==
  /\ pc[c] = "find"
  /\ it[c] <= Len(ImportSec[c])
  /\ LET ImpDesc == ImpDescOf(c)
         Res == findModule(store, ImpDesc.ModName)
     IN IF Res.ok
        THEN /\ TargetModInst' = [TargetModInst EXCEPT ![c] = Res.val]
             /\ pc' = [pc EXCEPT ![c] = "getaddr"]
             /\ UNCHANGED <<result, log, ModInst, it, TargetAddr>>
        ELSE ReturnError(c, logUnknownError(ImpDesc.ModName,
                               ImpDesc.ExtName, ImpDesc.ExtType, Node))
  /\ Called(c, "findModule")
  /\ UNCHANGED <<store, ImportSec, limVars>>

\* Lines 119-124: getImportAddr on the module found.
GetImportAddr(c) ==
  /\ pc[c] = "getaddr"
  /\ LET ImpDesc == ImpDescOf(c)
         Res == getImportAddr(ImpDesc.ModName, ImpDesc.ExtName,
                              ImpDesc.ExtType, Node,
                              store.Modules[TargetModInst[c]])
     IN IF Res.ok
        THEN /\ TargetAddr' = [TargetAddr EXCEPT ![c] = <<Res.val>>]
             /\ pc' = [pc EXCEPT ![c] = "match"]
             /\ UNCHANGED <<result, log, ModInst, it, TargetModInst>>
        ELSE ReturnError(c, Res)
  /\ Called(c, "getImportAddr")
  /\ UNCHANGED <<store, ImportSec, limVars>>

\* Lines 128-144: case ExternalType::Function.
ImportFunction(c) ==
  /\ pc[c] = "match"
  /\ ImpDescOf(c).ExtType = "Function"
  /\ LET ImpDesc == ImpDescOf(c)
         TargetType == getFunction(store, TargetAddr[c][1])
         FType == getFuncType(ModInst[c], ImpDesc.TypeIdx)
     IN IF FuncMismatch(store, ModInst[c], ImpDesc, TargetAddr[c][1])
        THEN ReturnError(c, logMatchError(ImpDesc.ModName, ImpDesc.ExtName,
                    ImpDesc.ExtType, Node,
                    <<FType.ParamTypes, FType.ReturnTypes,
                      TargetType.ParamTypes, TargetType.ReturnTypes>>))
        ELSE /\ ModInst' = [ModInst EXCEPT
                              ![c] = importFunction(@, TargetAddr[c][1])]
             /\ NextImport(c)
  /\ Called(c, "getFunction")
  /\ UNCHANGED <<store, ImportSec, limVars>>

\* Lines 145-164: case ExternalType::Table.
ImportTable(c) ==
  /\ pc[c] = "match"
  /\ ImpDescOf(c).ExtType = "Table"
  /\ LET ImpDesc == ImpDescOf(c)
         TabType == ImpDesc.TabType
         TabLim == TabType.Limit
         TargetType == getTable(store, TargetAddr[c][1])
         TargetLim == TargetType.Limit
     IN IF TableMismatch(store, ImpDesc, TargetAddr[c][1])
        THEN ReturnError(c, logMatchError(ImpDesc.ModName, ImpDesc.ExtName,
                    ImpDesc.ExtType, Node,
                    <<TabType.RefType, TabLim.hasMax, TabLim.min, TabLim.max,
                      TargetType.RefType, TargetLim.hasMax, TargetLim.min,
                      TargetLim.max>>))
        ELSE /\ ModInst' = [ModInst EXCEPT
                              ![c] = importTable(@, TargetAddr[c][1])]
             /\ NextImport(c)
  /\ Called(c, "getTable")
  /\ UNCHANGED <<store, ImportSec, limVars>>

\* Variant of ImportMemory: the accepted memory is linked with importTable.
ImportMemoryAsTable(c) ==
  /\ pc[c] = "match"
  /\ ImpDescOf(c).ExtType = "Memory"
  /\ LET ImpDesc == ImpDescOf(c)
         MemLim == ImpDesc.MemType.Limit
         TargetLim == getMemory(store, TargetAddr[c][1]).Limit
     IN IF MemoryMismatch(store, ImpDesc, TargetAddr[c][1])
        THEN ReturnError(c, logMatchError(ImpDesc.ModName, ImpDesc.ExtName,
                    ImpDesc.ExtType, Node,
                    <<MemLim.hasMax, MemLim.min, MemLim.max,
                      TargetLim.hasMax, TargetLim.min, TargetLim.max>>))
        ELSE /\ ModInst' = [ModInst EXCEPT
                              ![c] = importTable(@, TargetAddr[c][1])]
             /\ NextImport(c)
  /\ Called(c, "getMemory")
  /\ UNCHANGED <<store, ImportSec, limVars>>

\* Lines 165-181: case ExternalType::Memory.
ImportMemory(c) ==
  /\ pc[c] = "match"
  /\ ImpDescOf(c).ExtType = "Memory"
  /\ LET ImpDesc == ImpDescOf(c)
         MemLim == ImpDesc.MemType.Limit
         TargetLim == getMemory(store, TargetAddr[c][1]).Limit
     IN IF MemoryMismatch(store, ImpDesc, TargetAddr[c][1])
        THEN ReturnError(c, logMatchError(ImpDesc.ModName, ImpDesc.ExtName,
                    ImpDesc.ExtType, Node,
                    <<MemLim.hasMax, MemLim.min, MemLim.max,
                      TargetLim.hasMax, TargetLim.min, TargetLim.max>>))
        ELSE /\ ModInst' = [ModInst EXCEPT
                              ![c] = importMemory(@, TargetAddr[c][1])]
             /\ NextImport(c)
  /\ Called(c, "getMemory")
  /\ UNCHANGED <<store, ImportSec, limVars>>

\* Lines 182-197: case ExternalType::Global.
ImportGlobal(c) ==
  /\ pc[c] = "match"
  /\ ImpDescOf(c).ExtType = "Global"
  /\ LET ImpDesc == ImpDescOf(c)
         GlobType == ImpDesc.GlobType
         TargetType == getGlobal(store, TargetAddr[c][1])
     IN IF GlobalMismatch(store, ImpDesc, TargetAddr[c][1])
        THEN ReturnError(c, logMatchError(ImpDesc.ModName, ImpDesc.ExtName,
                    ImpDesc.ExtType, Node,
                    <<GlobType.ValType, GlobType.ValMut,
                      TargetType.ValType, TargetType.ValMut>>))
        ELSE /\ ModInst' = [ModInst EXCEPT
                              ![c] = importGlobal(@, TargetAddr[c][1])]
             /\ NextImport(c)
  /\ Called(c, "getGlobal")
  /\ UNCHANGED <<store, ImportSec, limVars>>

\* Variant of ReturnSuccess: a linked module is registered in the store
\* under the name "sys" before instantiate returns.
ReturnSuccessRegisters(c) ==
  /\ pc[c] = "find"
  /\ it[c] > Len(ImportSec[c])
  /\ result' = [result EXCEPT ![c] = "ok"]
  /\ pc' = [pc EXCEPT ![c] = "done"]
  /\ store' = [store EXCEPT !.Modules = ("sys" :> EnvInst) @@ @]
  /\ UNCHANGED <<ImportSec, ModInst, it, TargetModInst, TargetAddr,
                 log, calls, limVars>>

\* Line 202: the range-for is exhausted, return {}.
ReturnSuccess(c) ==
  /\ pc[c] = "find"
  /\ it[c] > Len(ImportSec[c])
  /\ result' = [result EXCEPT ![c] = "ok"]
  /\ pc' = [pc EXCEPT ![c] = "done"]
  /\ UNCHANGED <<store, ImportSec, ModInst, it, TargetModInst, TargetAddr,
                 log, calls, limVars>>

Next ==
  \/ \E c \in Calls : FindModule(c)
  \/ \E c \in Calls : GetImportAddr(c)
  \/ \E c \in Calls : ImportFunction(c)
  \/ \E c \in Calls : ImportTable(c)
  \/ \E c \in Calls : ImportMemory(c)
  \/ \E c \in Calls : ImportGlobal(c)
  \/ \E c \in Calls : ReturnSuccess(c)

Spec == Init /\ [][Next]_vars

(***************************************************************************)
(* What the store says about an import, read off the store alone.          *)
(***************************************************************************)
Done(c) == pc[c] = "done"

ExportsOf(Inst, K) ==
  CASE K = "Function" -> Inst.FuncExports
    [] K = "Table"    -> Inst.TableExports
    [] K = "Memory"   -> Inst.MemExports
    [] K = "Global"   -> Inst.GlobalExports

AddrsOf(Inst, K) ==
  CASE K = "Function" -> Inst.FuncAddrs
    [] K = "Table"    -> Inst.TableAddrs
    [] K = "Memory"   -> Inst.MemAddrs
    [] K = "Global"   -> Inst.GlobalAddrs

Registered(d) == d.ModName \in DOMAIN store.Modules

ExportedAs(d, K) ==
  Registered(d) /\ d.ExtName \in DOMAIN ExportsOf(store.Modules[d.ModName], K)

\* The address the source module exports under the import's name and kind,
\* -1 when there is none.
ResolvedAddr(d) ==
  IF ExportedAs(d, d.ExtType)
  THEN ExportsOf(store.Modules[d.ModName], d.ExtType)[d.ExtName]
  ELSE -1

\* The candidate entity's type passes the checker of the import's kind.
TypeAccepted(c, d) ==
  LET a == ResolvedAddr(d) IN
  CASE d.ExtType = "Function" ->
         store.Funcs[a] = ModInst[c].FuncTypes[d.TypeIdx]
    [] d.ExtType = "Table" ->
         /\ store.Tabs[a].RefType = d.TabType.RefType
         /\ isLimitMatched(store.Tabs[a].Limit, d.TabType.Limit)
    [] d.ExtType = "Memory" ->
         isLimitMatched(store.Mems[a].Limit, d.MemType.Limit)
    [] d.ExtType = "Global" ->
         store.Globs[a] = d.GlobType

Satisfiable(c, d) ==
  Registered(d) /\ ExportedAs(d, d.ExtType) /\ TypeAccepted(c, d)

\* The error an unsatisfiable import is classified as.
ClassifiedError(d) ==
  IF ~Registered(d) \/ \A K \in ExternalTypes : ~ExportedAs(d, K)
  THEN "UnknownImport"
  ELSE "IncompatibleImportType"

\* Index of the first unsatisfiable import of the section, 0 if there is none.
FirstUnsat(c) ==
  LET bad == {k \in 1..Len(ImportSec[c]) : ~Satisfiable(c, ImportSec[c][k])}
  IN IF bad = {} THEN 0 ELSE CHOOSE k \in bad : \A j \in bad : k <= j

\* Export addresses of the imports 1..n of kind K, in declaration order.
RECURSIVE ResolvedOfKind(_, _, _)
ResolvedOfKind(sec, n, K) ==
  IF n = 0 THEN <<>>
  ELSE IF sec[n].ExtType = K
       THEN Append(ResolvedOfKind(sec, n - 1, K), ResolvedAddr(sec[n]))
       ELSE ResolvedOfKind(sec, n - 1, K)

TotalAppended(c) ==
  Len(ModInst[c].FuncAddrs) + Len(ModInst[c].TableAddrs)
    + Len(ModInst[c].MemAddrs) + Len(ModInst[c].GlobalAddrs)

\* Imports whose loop body has run to its end.
Processed(c) == it[c] - 1

(***************************************************************************)
(* C1  Order preservation: in every state of instantiate, and for each of  *)
(* the four kinds, the addresses appended to the module instance for that  *)
(* kind are the export addresses of the already processed imports of that  *)
(* kind, in declaration order, duplicates kept.                            *)
(***************************************************************************)
C1_OrderPreserved ==
  \A c \in Calls : \A K \in ExternalTypes :
    AddrsOf(ModInst[c], K) = ResolvedOfKind(ImportSec[c], Processed(c), K)

\* Two table imports linked, the higher address declared first.
C1_Witness ==
  \E c \in Calls :
    /\ Done(c) /\ result[c] = "ok"
    /\ ModInst[c].TableAddrs = <<1, 0>>

(***************************************************************************)
(* C2  Short-circuit on first failure: if import k is the first            *)
(* unsatisfiable import, no collaborator is called for an import after k,  *)
(* the loop never moves past k, and once instantiate has returned it has   *)
(* returned the error import k is classified as with k-1 addresses         *)
(* appended, none of them for imports k..n.                                *)
(***************************************************************************)
C2_ShortCircuit ==
  \A c \in Calls :
    LET k == FirstUnsat(c) IN
    k > 0 =>
      /\ it[c] <= k
      /\ \A e \in 1..Len(calls[c]) : calls[c][e][2] <= k
      /\ TotalAppended(c) <= k - 1
      /\ Done(c) =>
           /\ result[c] = ClassifiedError(ImportSec[c][k])
           /\ it[c] = k
           /\ TotalAppended(c) = k - 1

\* The first import fails and a satisfiable second import is left untouched.
C2_Witness ==
  \E c \in Calls :
    /\ Done(c)
    /\ Len(ImportSec[c]) = 2
    /\ FirstUnsat(c) = 1
    /\ Satisfiable(c, ImportSec[c][2])
    /\ result[c] = "IncompatibleImportType"

(***************************************************************************)
(* C3  As claimed: instantiate either returns success with every import's  *)
(* address appended, or returns an error with the four address sequences   *)
(* as they were before the call.                                           *)
(***************************************************************************)
C3_Transactional ==
  \A c \in Calls :
    Done(c) =>
      \/ /\ result[c] = "ok"
         /\ TotalAppended(c) = Len(ImportSec[c])
      \/ /\ result[c] # "ok"
         /\ \A K \in ExternalTypes :
              AddrsOf(ModInst[c], K) = AddrsOf(NewModInst, K)

(***************************************************************************)
(* C3  As amended: instantiate either returns success with every import's  *)
(* address appended, or returns an error with the four address sequences   *)
(* holding exactly the addresses of the imports that precede the first     *)
(* unsatisfiable one (nothing is rolled back, nothing later is appended).  *)
(***************************************************************************)
C3_NoRollback ==
  \A c \in Calls :
    Done(c) =>
      \/ /\ result[c] = "ok"
         /\ \A K \in ExternalTypes :
              AddrsOf(ModInst[c], K)
                = ResolvedOfKind(ImportSec[c], Len(ImportSec[c]), K)
      \/ /\ result[c] # "ok"
         /\ FirstUnsat(c) > 0
         /\ \A K \in ExternalTypes :
              AddrsOf(ModInst[c], K)
                = ResolvedOfKind(ImportSec[c], FirstUnsat(c) - 1, K)

\* An error is returned and the address of the first import stays appended.
C3_Witness ==
  \E c \in Calls :
    /\ Done(c)
    /\ result[c] # "ok"
    /\ TotalAppended(c) = 1

(***************************************************************************)
(* C4  instantiate returns success if and only if every import of the      *)
(* section is satisfiable, and on success the four address sequences hold  *)
(* as many addresses as the section has import descriptions.               *)
(***************************************************************************)
C4_SuccessIffAllSatisfiable ==
  \A c \in Calls :
    Done(c) =>
      /\ result[c] = "ok" <=>
           \A k \in 1..Len(ImportSec[c]) : Satisfiable(c, ImportSec[c][k])
      /\ result[c] = "ok" => TotalAppended(c) = Len(ImportSec[c])

\* Success on a section of two imports of different kinds.
C4_Witness ==
  \E c \in Calls :
    /\ Done(c) /\ result[c] = "ok"
    /\ Len(ImportSec[c]) = 2
    /\ ImportSec[c][1].ExtType # ImportSec[c][2].ExtType

\* The last collaborator call of instantiate, as <<op, import>>.
LastCall(c) == calls[c][Len(calls[c])]

\* The step that called op was the last step taken.
After(c, op) == Len(calls[c]) > 0 /\ LastCall(c)[1] = op

\* The kinds other than the requested one under which the name is exported.
OtherKinds(d) == {K \in ExternalTypes \ {d.ExtType} : ExportedAs(d, K)}

(***************************************************************************)
(* C6  Export lookup classification: on a found source module,             *)
(* getImportAddr returns the address stored under the name in the export   *)
(* map of the requested kind when it is there; fails with                  *)
(* IncompatibleImportType, reporting a kind that does export the name as   *)
(* the actual kind, when the name is only in the map of another kind; and  *)
(* fails with UnknownImport when the name is in none of the four maps.     *)
(***************************************************************************)
C6_ExportLookup ==
  \A c \in Calls :
    After(c, "getImportAddr") =>
      LET d == ImpDescOf(c) IN
      /\ ExportedAs(d, d.ExtType) =>
           /\ pc[c] = "match"
           /\ result[c] = "running"
           /\ TargetAddr[c][1] = ResolvedAddr(d)
      /\ (~ExportedAs(d, d.ExtType) /\ OtherKinds(d) # {}) =>
           /\ Done(c)
           /\ result[c] = "IncompatibleImportType"
           /\ \E K \in OtherKinds(d) :
                \E i \in 1..Len(log) :
                  /\ log[i].info = "InfoMismatch"
                  /\ log[i].values = <<d.ExtType, K>>
      /\ (~ExportedAs(d, d.ExtType) /\ OtherKinds(d) = {}) =>
           /\ Done(c)
           /\ result[c] = "UnknownImport"
           /\ \A i \in 1..Len(log) : log[i].info # "InfoMismatch"

\* A name exported as a function is imported as a global.
C6_Witness ==
  \E c \in Calls :
    /\ After(c, "getImportAddr")
    /\ Done(c)
    /\ result[c] = "IncompatibleImportType"
    /\ ImpDescOf(c).ExtType = "Global"
    /\ \E i \in 1..Len(log) :
         /\ log[i].info = "InfoMismatch"
         /\ log[i].values = <<"Global", "Function">>

(***************************************************************************)
(* C7  Unknown module: an import whose module name is not registered in    *)
(* the store makes instantiate fail with UnknownImport whatever the        *)
(* requested name and kind; getImportAddr is not called for it and no      *)
(* address is appended for it.                                             *)
(***************************************************************************)
C7_UnknownModule ==
  \A c \in Calls :
    (/\ it[c] <= Len(ImportSec[c])
     /\ ~Registered(ImpDescOf(c))
     /\ pc[c] # "find") =>
      /\ Done(c)
      /\ result[c] = "UnknownImport"
      /\ LastCall(c) = <<"findModule", it[c]>>
      /\ \A e \in 1..Len(calls[c]) : calls[c][e] # <<"getImportAddr", it[c]>>
      /\ TotalAppended(c) = it[c] - 1

\* After one linked import, a name "env" does export is imported from "sys".
C7_Witness ==
  \E c \in Calls :
    /\ Done(c)
    /\ result[c] = "UnknownImport"
    /\ it[c] = 2
    /\ TotalAppended(c) = 1
    /\ ImpDescOf(c).ModName = "sys"
    /\ ImpDescOf(c).ExtName = "add"

(***************************************************************************)
(* C8  Function import matching is exact equality: a function import whose *)
(* export is found is accepted, its address appended to the function       *)
(* addresses, if and only if the candidate has the same ordered parameter  *)
(* types and the same ordered return types as the type at the import's     *)
(* type index; otherwise instantiate fails with IncompatibleImportType.    *)
(***************************************************************************)
C8_FunctionExactMatch ==
  \A c \in Calls :
    After(c, "getFunction") =>
      LET j == LastCall(c)[2]
          d == ImportSec[c][j]
          cand == store.Funcs[ResolvedAddr(d)]
          decl == ModInst[c].FuncTypes[d.TypeIdx]
          before == ResolvedOfKind(ImportSec[c], j - 1, "Function")
      IN IF cand.ParamTypes = decl.ParamTypes
              /\ cand.ReturnTypes = decl.ReturnTypes
         THEN /\ result[c] \in {"running", "ok"}
              /\ it[c] = j + 1
              /\ ModInst[c].FuncAddrs = Append(before, ResolvedAddr(d))
         ELSE /\ Done(c)
              /\ result[c] = "IncompatibleImportType"
              /\ it[c] = j
              /\ ModInst[c].FuncAddrs = before

\* A candidate returning [i32] is rejected for a declared return of [i64].
C8_Witness ==
  \E c \in Calls :
    /\ After(c, "getFunction")
    /\ Done(c)
    /\ result[c] = "IncompatibleImportType"
    /\ store.Funcs[ResolvedAddr(ImpDescOf(c))].ReturnTypes = <<"i32">>
    /\ ModInst[c].FuncTypes[ImpDescOf(c).TypeIdx].ReturnTypes = <<"i64">>
    /\ store.Funcs[ResolvedAddr(ImpDescOf(c))].ParamTypes
         = ModInst[c].FuncTypes[ImpDescOf(c).TypeIdx].ParamTypes

(***************************************************************************)
(* C9  Global import matching is exact pair equality: a global import      *)
(* whose export is found is accepted if and only if the candidate's value  *)
(* type and mutability both equal the declared ones; a mutability mismatch *)
(* with equal value types fails with IncompatibleImportType, whichever     *)
(* side is the mutable one.                                                *)
(***************************************************************************)
C9_GlobalExactMatch ==
  \A c \in Calls :
    After(c, "getGlobal") =>
      LET j == LastCall(c)[2]
          d == ImportSec[c][j]
          cand == store.Globs[ResolvedAddr(d)]
          decl == d.GlobType
          before == ResolvedOfKind(ImportSec[c], j - 1, "Global")
      IN /\ IF cand.ValType = decl.ValType /\ cand.ValMut = decl.ValMut
            THEN /\ result[c] \in {"running", "ok"}
                 /\ it[c] = j + 1
                 /\ ModInst[c].GlobalAddrs = Append(before, ResolvedAddr(d))
            ELSE /\ Done(c)
                 /\ result[c] = "IncompatibleImportType"
                 /\ it[c] = j
                 /\ ModInst[c].GlobalAddrs = before
         /\ (cand.ValType = decl.ValType /\ cand.ValMut # decl.ValMut) =>
              result[c] = "IncompatibleImportType"

\* A mutable i32 global is rejected for an immutable i32 import.
C9_Witness ==
  \E c \in Calls :
    /\ After(c, "getGlobal")
    /\ Done(c)
    /\ result[c] = "IncompatibleImportType"
    /\ store.Globs[ResolvedAddr(ImpDescOf(c))] = GlobalType("i32", "Var")
    /\ ImpDescOf(c).GlobType = GlobalType("i32", "Const")

(***************************************************************************)
(* C10  Table import matching: a table import whose export is found is     *)
(* accepted if and only if the candidate's reference type equals the       *)
(* declared one and isLimitMatched(candidate limit, declared limit) holds; *)
(* otherwise instantiate fails with IncompatibleImportType and no address  *)
(* is appended to the table addresses.                                     *)
(***************************************************************************)
C10_TableMatch ==
  \A c \in Calls :
    After(c, "getTable") =>
      LET j == LastCall(c)[2]
          d == ImportSec[c][j]
          cand == store.Tabs[ResolvedAddr(d)]
          decl == d.TabType
          before == ResolvedOfKind(ImportSec[c], j - 1, "Table")
      IN IF cand.RefType = decl.RefType
              /\ isLimitMatched(cand.Limit, decl.Limit)
         THEN /\ result[c] \in {"running", "ok"}
              /\ it[c] = j + 1
              /\ ModInst[c].TableAddrs = Append(before, ResolvedAddr(d))
         ELSE /\ Done(c)
              /\ result[c] = "IncompatibleImportType"
              /\ it[c] = j
              /\ ModInst[c].TableAddrs = before

\* Equal reference types, but the candidate's minimum is below the declared.
C10_Witness ==
  \E c \in Calls :
    /\ After(c, "getTable")
    /\ Done(c)
    /\ result[c] = "IncompatibleImportType"
    /\ store.Tabs[ResolvedAddr(ImpDescOf(c))].RefType
         = ImpDescOf(c).TabType.RefType
    /\ store.Tabs[ResolvedAddr(ImpDescOf(c))].Limit.min
         < ImpDescOf(c).TabType.Limit.min

(***************************************************************************)
(* isLimitMatched on its own: every pair of limits, one call.              *)
(***************************************************************************)
InitLimit ==
  /\ InitCalls(<<>>)
  /\ Cand \in Limits
  /\ Decl \in Limits
  /\ matched = <<>>

CallIsLimitMatched ==
  /\ matched = <<>>
  /\ matched' = <<isLimitMatched(Cand, Decl)>>
  /\ UNCHANGED <<store, ImportSec, ModInst, pc, it, TargetModInst,
                 TargetAddr, result, log, calls, Cand, Decl>>

NextLimit == CallIsLimitMatched

SpecLimit == InitLimit /\ [][NextLimit]_vars

(***************************************************************************)
(* C5  Limit matching: isLimitMatched(C, D) is true if and only if         *)
(* C.min >= D.min, and not (C has no maximum while D has one), and, when   *)
(* both have a maximum, C.max <= D.max.  In particular {min 5, max 10}     *)
(* matches {min 3, no max}, and {min 5, no max} does not match             *)
(* {min 3, max 10}.                                                        *)
(***************************************************************************)
C5_LimitMatching ==
  matched # <<>> =>
    /\ matched[1] <=>
         /\ Cand.min >= Decl.min
         /\ ~(~Cand.hasMax /\ Decl.hasMax)
         /\ (Cand.hasMax /\ Decl.hasMax) => Cand.max <= Decl.max
    /\ (Cand = WithMax(5, 10) /\ Decl.min = 3 /\ ~Decl.hasMax) => matched[1]
    /\ (Cand.min = 5 /\ ~Cand.hasMax /\ Decl = WithMax(3, 10)) => ~matched[1]

\* isLimitMatched({min 5, max 10}, {min 3, no max}) has returned true.
C5_Witness ==
  /\ matched = <<TRUE>>
  /\ Cand = WithMax(5, 10)
  /\ Decl.min = 3 /\ ~Decl.hasMax

(***************************************************************************)
(* C11  Memory import matching: a memory import whose export is found is   *)
(* accepted if and only if isLimitMatched(candidate limit, declared limit) *)
(* holds, the candidate being the first argument.  A candidate             *)
(* {min 1, max 2} is accepted for a declared {min 1, max 4}, its address   *)
(* appended, and rejected with IncompatibleImportType for a declared       *)
(* {min 2, max 2}.                                                         *)
(***************************************************************************)
C11_MemoryMatch ==
  \A c \in Calls :
    After(c, "getMemory") =>
      LET j == LastCall(c)[2]
          d == ImportSec[c][j]
          cand == store.Mems[ResolvedAddr(d)].Limit
          decl == d.MemType.Limit
          before == ResolvedOfKind(ImportSec[c], j - 1, "Memory")
          accepted == /\ result[c] \in {"running", "ok"}
                      /\ it[c] = j + 1
                      /\ ModInst[c].MemAddrs = Append(before, ResolvedAddr(d))
          rejected == /\ Done(c)
                      /\ result[c] = "IncompatibleImportType"
                      /\ it[c] = j
                      /\ ModInst[c].MemAddrs = before
      IN /\ IF isLimitMatched(cand, decl) THEN accepted ELSE rejected
         /\ (cand = WithMax(1, 2) /\ decl = WithMax(1, 4)) => accepted
         /\ (cand = WithMax(1, 2) /\ decl = WithMax(2, 2)) => rejected

\* The memory {min 1, max 2} is imported with a declared {min 1, max 4}.
C11_Witness ==
  \E c \in Calls :
    /\ After(c, "getMemory")
    /\ result[c] \in {"running", "ok"}
    /\ it[c] = 2
    /\ store.Mems[ModInst[c].MemAddrs[1]].Limit = WithMax(1, 2)
    /\ ImportSec[c][1].MemType.Limit = WithMax(1, 4)

(***************************************************************************)
(* C12  The error taxonomy is closed: a run of instantiate that fails      *)
(* returns UnknownImport or IncompatibleImportType and nothing else, and   *)
(* logs that same code; UnknownImport only when the import's module is not *)
(* registered or its name is exported under no kind;                       *)
(* IncompatibleImportType only when the name is exported, under the        *)
(* requested or another kind, but the kind or the type does not match.     *)
(***************************************************************************)
C12_ClosedTaxonomy ==
  \A c \in Calls :
    /\ result[c] \in {"running", "ok", "UnknownImport",
                      "IncompatibleImportType"}
    /\ result[c] = "running" <=> ~Done(c)
    /\ result[c] \in {"UnknownImport", "IncompatibleImportType"} =>
         /\ it[c] <= Len(ImportSec[c])
         /\ log # <<>>
         /\ log[1] = [info |-> "ErrCode", code |-> result[c]]
         /\ \A i \in 2..Len(log) : log[i].info # "ErrCode"
    /\ result[c] = "UnknownImport" =>
         \/ ~Registered(ImpDescOf(c))
         \/ \A K \in ExternalTypes : ~ExportedAs(ImpDescOf(c), K)
    /\ result[c] = "IncompatibleImportType" =>
         /\ \E K \in ExternalTypes : ExportedAs(ImpDescOf(c), K)
         /\ \/ ~ExportedAs(ImpDescOf(c), ImpDescOf(c).ExtType)
            \/ ~TypeAccepted(c, ImpDescOf(c))

\* A registered module exports the name under no kind: UnknownImport.
C12_Witness ==
  \E c \in Calls :
    /\ Done(c)
    /\ result[c] = "UnknownImport"
    /\ Registered(ImpDescOf(c))
    /\ \A K \in ExternalTypes : ~ExportedAs(ImpDescOf(c), K)

\* Both sides of the mismatch of a rejected import d, the declared side
\* first: kinds after getImportAddr, types after the type check.
MismatchSides(c, d) ==
  LET a == ResolvedAddr(d) IN
  CASE After(c, "getImportAddr") ->
         <<d.ExtType,
           CHOOSE K \in OtherKinds(d) :
             \A L \in OtherKinds(d) :
               \/ K = L
               \/ K = "Function"
               \/ (K = "Table" /\ L # "Function")
               \/ (K = "Memory" /\ L = "Global")>>
    [] After(c, "getFunction") ->
         <<ModInst[c].FuncTypes[d.TypeIdx].ParamTypes,
           ModInst[c].FuncTypes[d.TypeIdx].ReturnTypes,
           store.Funcs[a].ParamTypes, store.Funcs[a].ReturnTypes>>
    [] After(c, "getTable") ->
         <<d.TabType.RefType, d.TabType.Limit.hasMax, d.TabType.Limit.min,
           d.TabType.Limit.max,
           store.Tabs[a].RefType, store.Tabs[a].Limit.hasMax,
           store.Tabs[a].Limit.min, store.Tabs[a].Limit.max>>
    [] After(c, "getMemory") ->
         <<d.MemType.Limit.hasMax, d.MemType.Limit.min, d.MemType.Limit.max,
           store.Mems[a].Limit.hasMax, store.Mems[a].Limit.min,
           store.Mems[a].Limit.max>>
    [] After(c, "getGlobal") ->
         <<d.GlobType.ValType, d.GlobType.ValMut,
           store.Globs[a].ValType, store.Globs[a].ValMut>>

(***************************************************************************)
(* C13  Diagnostics at the point of failure: every failure of instantiate  *)
(* logs the module name, external name and requested kind of the import it *)
(* failed on; an IncompatibleImportType failure also logs both sides of    *)
(* the mismatch, the declared side first and the actual side second        *)
(* (requested kind, found kind; declared type, candidate type); an         *)
(* UnknownImport failure logs no mismatch.                                 *)
(***************************************************************************)
C13_Diagnostics ==
  \A c \in Calls :
    result[c] \in {"UnknownImport", "IncompatibleImportType"} =>
      LET d == ImpDescOf(c)
          linking == {i \in 1..Len(log) : log[i].info = "InfoLinking"}
          mismatch == {i \in 1..Len(log) : log[i].info = "InfoMismatch"}
      IN /\ Cardinality(linking) = 1
         /\ \A i \in linking :
              /\ log[i].ModName = d.ModName
              /\ log[i].ExtName = d.ExtName
              /\ log[i].ExtType = d.ExtType
         /\ result[c] = "UnknownImport" => mismatch = {}
         /\ result[c] = "IncompatibleImportType" =>
              /\ Cardinality(mismatch) = 1
              /\ \A i \in mismatch : log[i].values = MismatchSides(c, d)

\* A table import is rejected: declared type, then candidate type.
C13_Witness ==
  \E c \in Calls :
    /\ result[c] = "IncompatibleImportType"
    /\ After(c, "getTable")
    /\ Len(log) = 4
    /\ log[2].values = <<"FuncRef", TRUE, 2, 2, "FuncRef", TRUE, 1, 2>>
    /\ log[3].ExtName = "tab"


(***************************************************************************)
(* C14  Limit matching is a preorder that is not symmetric:                *)
(* isLimitMatched(L, L) is true for every limit L; whenever                *)
(* isLimitMatched(A, B) has returned true, isLimitMatched(B, C) implies    *)
(* isLimitMatched(A, C) for every limit C; and the pair A = {min 1,        *)
(* max 2}, B = {min 0, no max} is matched from A to B but not from B to A. *)
(***************************************************************************)
C14_Preorder ==
  matched # <<>> =>
    /\ Cand = Decl => matched[1]
    /\ matched[1] =>
         \A C \in Limits : isLimitMatched(Decl, C) => isLimitMatched(Cand, C)
    /\ (Cand = WithMax(1, 2) /\ Decl = NoMax(0)) => matched[1]
    /\ (Cand = NoMax(0) /\ Decl = WithMax(1, 2)) => ~matched[1]

\* A pair matched in one direction only, with a third limit below it.
C14_Witness ==
  /\ matched = <<TRUE>>
  /\ Cand = WithMax(1, 2)
  /\ Decl = NoMax(0)
  /\ ~isLimitMatched(Decl, Cand)
  /\ \E C \in Limits : C # Decl /\ isLimitMatched(Decl, C)


(***************************************************************************)
(* instantiate is a sequential function: once called, each of its steps is *)
(* executed as soon as the previous one has returned, up to the return.    *)
(***************************************************************************)
SpecFair == Spec /\ WF_vars(Next)

\* The store accesses of call c so far, each <<operation, import index>>.
Accesses(c, op) == {i \in 1..Len(calls[c]) : calls[c][i][1] = op}

(***************************************************************************)
(* C15  The per-instantiation state machine terminates: every run of       *)
(* instantiate over n import descriptions eventually returns, with exactly *)
(* one of success, UnknownImport or IncompatibleImportType; it resolves at *)
(* most n imports, each at most once and in increasing position; and once  *)
(* it has returned, no address is appended and no error is produced.       *)
(***************************************************************************)
C15_Terminates ==
  /\ <>(\A c \in Calls : Done(c))
  /\ [](\A c \in Calls :
          /\ Done(c) <=>
               result[c] \in {"ok", "UnknownImport", "IncompatibleImportType"}
          /\ Processed(c) <= Len(ImportSec[c])
          /\ Cardinality(Accesses(c, "findModule")) <= Len(ImportSec[c])
          /\ \A i, k \in 1..Len(calls[c]) :
               i < k => /\ calls[c][i] # calls[c][k]
                        /\ calls[c][i][2] <= calls[c][k][2])
  /\ [][\A c \in Calls :
          Done(c) => /\ ModInst'[c] = ModInst[c]
                     /\ result'[c] = result[c]
                     /\ pc'[c] = pc[c]
                     /\ log' = log]_vars

\* A section of two imports has been linked: both were resolved, once each.
C15_Witness ==
  \E c \in Calls :
    /\ Done(c)
    /\ result[c] = "ok"
    /\ Len(ImportSec[c]) = 2
    /\ Cardinality(Accesses(c, "getImportAddr")) = 2
    /\ TotalAppended(c) = 2


(***************************************************************************)
(* C16  Linking leaves the store unchanged: no step of instantiate,        *)
(* whether the call ends in success or in an error, changes the store's    *)
(* registry of module names, the four export maps of a registered module   *)
(* instance, or the type of a function, table, memory or global; of the    *)
(* instantiating module instance only the four imported-address sequences  *)
(* change, and the module instance of another call does not change at all. *)
(***************************************************************************)
C16_StoreUnchanged ==
  [][/\ DOMAIN store'.Modules = DOMAIN store.Modules
     /\ \A m \in DOMAIN store.Modules :
          \A K \in ExternalTypes :
            ExportsOf(store'.Modules[m], K) = ExportsOf(store.Modules[m], K)
     /\ store'.Funcs = store.Funcs
     /\ store'.Tabs = store.Tabs
     /\ store'.Mems = store.Mems
     /\ store'.Globs = store.Globs
     /\ \A c \in Calls :
          /\ ModInst'[c].FuncTypes = ModInst[c].FuncTypes
          /\ ModInst'[c] # ModInst[c] => pc[c] = "match"
     /\ ImportSec' = ImportSec]_vars

\* A call has linked a memory and then failed on an unknown import; the
\* store is the one the call started with.
C16_Witness ==
  \E c \in Calls :
    /\ Done(c)
    /\ result[c] = "UnknownImport"
    /\ Len(ModInst[c].MemAddrs) = 1
    /\ store = TheStore


(***************************************************************************)
(* Two calls of instantiate, each on its own module instance, against the  *)
(* same store; their steps interleave in any order.  No action registers a *)
(* module or creates an entity.  The sections are drawn from five import   *)
(* descriptions: a function, a memory and a global that link, a table      *)
(* whose reference type is rejected, and a name "env" does not export.     *)
(***************************************************************************)
ConcDescs ==
  {ImportDesc("env", "add", "Function", 0, DefaultTableType,
              DefaultMemoryType, DefaultGlobalType),
   ImportDesc("env", "tab", "Table", 0, TableType("ExternRef", NoMax(0)),
              DefaultMemoryType, DefaultGlobalType),
   ImportDesc("env", "mem", "Memory", 0, DefaultTableType,
              MemoryType(WithMax(1, 4)), DefaultGlobalType),
   ImportDesc("env", "glob", "Global", 0, DefaultTableType,
              DefaultMemoryType, DefaultGlobalType),
   ImportDesc("env", "nil", "Global", 0, DefaultTableType,
              DefaultMemoryType, DefaultGlobalType)}

ConcSections == UNION { [1..n -> ConcDescs] : n \in 0..MaxImports }

InitConc ==
  /\ \E s1, s2 \in ConcSections : InitCalls(<<s1, s2>>)
  /\ Cand = NoMax(0) /\ Decl = NoMax(0) /\ matched = <<>>

SpecConc == InitConc /\ [][Next]_vars

\* What call c returns and links when it runs alone: the addresses of the
\* imports up to the first unsatisfiable one of its section, and its error.
Alone(c) ==
  LET k == FirstUnsat(c)
      n == IF k = 0 THEN Len(ImportSec[c]) ELSE k - 1
  IN [result |-> IF k = 0 THEN "ok" ELSE ClassifiedError(ImportSec[c][k]),
      addrs |-> [K \in ExternalTypes |-> ResolvedOfKind(ImportSec[c], n, K)]]

(***************************************************************************)
(* C17  Concurrent linking against a shared store is interference-free:    *)
(* with two calls of instantiate on distinct module instances interleaved  *)
(* step by step against one store, each call that has returned has the     *)
(* result and the four address sequences it has when run alone, whatever   *)
(* the other call has done; a call that has not returned has appended a    *)
(* prefix of them; two calls given the same section end alike.             *)
(***************************************************************************)
C17_InterferenceFree ==
  \A c \in Calls :
    LET alone == Alone(c) IN
    /\ Done(c) =>
         /\ result[c] = alone.result
         /\ \A K \in ExternalTypes : AddrsOf(ModInst[c], K) = alone.addrs[K]
    /\ ~Done(c) =>
         /\ result[c] = "running"
         /\ \A K \in ExternalTypes :
              LET got == AddrsOf(ModInst[c], K) IN
              /\ Len(got) <= Len(alone.addrs[K])
              /\ got = SubSeq(alone.addrs[K], 1, Len(got))
    /\ \A e \in Calls :
         (Done(c) /\ Done(e) /\ ImportSec[c] = ImportSec[e]) =>
           (result[c] = result[e] /\ ModInst[c] = ModInst[e])

\* Both calls have returned: the first has failed on the type of its first
\* import, the second has linked a function and a memory.
C17_Witness ==
  /\ Len(pc) = 2
  /\ Done(1) /\ Done(2)
  /\ result[1] = "IncompatibleImportType" /\ Len(calls[1]) = 3
  /\ result[2] = "ok"
  /\ ModInst[2].FuncAddrs = <<0>> /\ ModInst[2].MemAddrs = <<0>>
  /\ log # <<>>


(***************************************************************************)
(* C18  Each successfully resolved import of kind K appends exactly one    *)
(* address, the resolved one, to the instantiating module instance's       *)
(* sequence for K and leaves the sequences of the other three kinds        *)
(* unchanged; a failing import, and every step that is not the end of a    *)
(* successful resolution, appends nothing to any sequence.                 *)
(***************************************************************************)
C18_OneAppendPerImport ==
  [][\A c \in Calls :
       IF it'[c] = it[c] + 1
       THEN LET d == ImpDescOf(c) IN
            /\ result'[c] = "running"
            /\ \A K \in ExternalTypes :
                 AddrsOf(ModInst'[c], K)
                   = IF K = d.ExtType
                     THEN Append(AddrsOf(ModInst[c], K), ResolvedAddr(d))
                     ELSE AddrsOf(ModInst[c], K)
       ELSE /\ ModInst'[c] = ModInst[c]
            /\ it'[c] = it[c]]_vars

\* A function and then a table have been linked, one address each, and the
\* memory and global sequences are still empty.
C18_Witness ==
  \E c \in Calls :
    /\ After(c, "getTable")
    /\ it[c] = 3
    /\ Len(ModInst[c].FuncAddrs) = 1
    /\ Len(ModInst[c].TableAddrs) = 1
    /\ Len(ModInst[c].MemAddrs) = 0
    /\ Len(ModInst[c].GlobalAddrs) = 0


\* The order in which getImportAddr scans the export maps on a miss.
ScanOrder == <<"Function", "Table", "Memory", "Global">>

\* The kind of S that comes first in the scan order.
FirstScanned(S) ==
  ScanOrder[CHOOSE i \in 1..4 :
              ScanOrder[i] \in S /\ \A j \in 1..(i - 1) : ScanOrder[j] \notin S]

(***************************************************************************)
(* C19  The requested kind's export map is consulted first: when the       *)
(* source module exports the name under the requested kind and under       *)
(* another kind too, getImportAddr returns the address found under the     *)
(* requested kind and logs no error; when the name is missing under the    *)
(* requested kind and exported under two or more other kinds, the result   *)
(* is IncompatibleImportType and the kind reported as found is the first   *)
(* of those kinds in the order Function, Table, Memory, Global.            *)
(***************************************************************************)
C19_RequestedKindFirst ==
  \A c \in Calls :
    After(c, "getImportAddr") =>
      LET d == ImpDescOf(c)
          others == OtherKinds(d)
      IN /\ (ExportedAs(d, d.ExtType) /\ others # {}) =>
              /\ pc[c] = "match"
              /\ result[c] = "running"
              /\ log = <<>>
              /\ TargetAddr[c]
                   = <<ExportsOf(store.Modules[d.ModName], d.ExtType)[d.ExtName]>>
         /\ (~ExportedAs(d, d.ExtType) /\ Cardinality(others) >= 2) =>
              /\ Done(c)
              /\ result[c] = "IncompatibleImportType"
              /\ log[1].code = "IncompatibleImportType"
              /\ log[2].values = <<d.ExtType, FirstScanned(others)>>

\* "tab" is a table at address 0 and a memory at address 1: the import of
\* the memory "tab" has been resolved to address 1.
C19_Witness ==
  \E c \in Calls :
    /\ After(c, "getImportAddr")
    /\ ImpDescOf(c).ExtName = "tab"
    /\ ImpDescOf(c).ExtType = "Memory"
    /\ pc[c] = "match"
    /\ TargetAddr[c] = <<1>>

====
